---- MODULE Spec2Model ----
(***************************************************************************)
(* Model of omawari-random/kukan2.py: validate_connections (the graph      *)
(* validator / repairer) and print_all_sections (the edge enumerator).     *)
(*                                                                         *)
(* A Python dict is an insertion-ordered sequence of [k, v] entries; a     *)
(* station is a small integer (its order is the order sorted() uses); a    *)
(* report line is a record holding the line's kind and the values that are *)
(* formatted into it.                                                      *)
(***************************************************************************)
EXTENDS Integers, Sequences, FiniteSets, TLC

\* ---- bounds of the model ----
NumNodes == 3
MaxKeys == 2
MaxEntries == 2
MaxRuns == 2

Nodes == 1..NumNodes

\* save_to: None, the empty string, or a path
None == "None"
SavePaths == {None, "", "fixed_connections.json"}

VARIABLES connections, auto_fix, save_to, verbose,
          conn, report, items, idx, pc, wrote, stdout, run,
          prev_defects, sections_arg

vars == <<connections, auto_fix, save_to, verbose,
          conn, report, items, idx, pc, wrote, stdout, run, prev_defects, sections_arg>>

\* ---- sequences and dicts ----
Range(s) == {s[j] : j \in 1..Len(s)}

In(x, s) == \E j \in 1..Len(s) : s[j] = x

RECURSIVE SeqsUpTo(_, _)
SeqsUpTo(S, n) ==
    IF n = 0 THEN {<<>>}
    ELSE LET shorter == SeqsUpTo(S, n - 1)
         IN shorter \cup {Append(s, x) : s \in {t \in shorter : Len(t) = n - 1}, x \in S}

Entry(k, v) == [k |-> k, v |-> v]

Keys(d) == {d[j].k : j \in 1..Len(d)}

Has(d, k) == \E j \in 1..Len(d) : d[j].k = k

Get(d, k) == d[CHOOSE j \in 1..Len(d) : d[j].k = k].v

\* d[k] = v : replaces the value in place, or appends a new key at the end
Put(d, k, v) ==
    IF Has(d, k)
    THEN [j \in 1..Len(d) |-> IF d[j].k = k THEN Entry(k, v) ELSE d[j]]
    ELSE Append(d, Entry(k, v))

\* every dict of at most MaxKeys distinct keys whose lists hold at most
\* MaxEntries entries together: a key sequence, the entries of all the lists
\* in order, and the (non-decreasing) position of the key owning each entry
Dicts ==
    LET KeySeqs == {ks \in SeqsUpTo(Nodes, MaxKeys) :
                       \A a, b \in 1..Len(ks) : ks[a] = ks[b] => a = b}
        Owners(ks, fl) == {own \in [1..Len(fl) -> 1..Len(ks)] :
                              \A a, b \in 1..Len(fl) : a <= b => own[a] <= own[b]}
        ListOf(fl, own, j) ==
            LET lo == Cardinality({a \in 1..Len(fl) : own[a] < j})
                n == Cardinality({a \in 1..Len(fl) : own[a] = j})
            IN SubSeq(fl, lo + 1, lo + n)
    IN UNION {UNION {{[j \in 1..Len(ks) |-> Entry(ks[j], ListOf(fl, own, j))]
                         : own \in Owners(ks, fl)}
                    : fl \in SeqsUpTo(Nodes, MaxEntries)}
                 : ks \in KeySeqs}

\* ---- report lines ----
Line(kind, a, b, l, p) == [kind |-> kind, a |-> a, b |-> b, l |-> l, p |-> p]

DefectKinds == {"dup", "self", "undefined", "missing"}

\* the order-preserving duplicate removal of lines 59-64 and 101-106
RECURSIVE Dedup(_)
Dedup(l) ==
    IF l = <<>> THEN <<>>
    ELSE LET front == Dedup(SubSeq(l, 1, Len(l) - 1))
             x == l[Len(l)]
         IN IF In(x, front) THEN front ELSE Append(front, x)

\* mutant: the comprehension keeps every entry
RemoveSelfKeep(l, station) == l

\* [x for x in l if x != station]
RECURSIVE RemoveSelf(_, _)
RemoveSelf(l, station) ==
    IF l = <<>> THEN <<>>
    ELSE LET front == RemoveSelf(SubSeq(l, 1, Len(l) - 1), station)
             x == l[Len(l)]
         IN IF x = station THEN front ELSE Append(front, x)

\* ---- validate_connections ----

\* conn = {k: list(v) for k, v in connections.items()}
CopyOf(d) == [j \in 1..Len(d) |-> Entry(d[j].k, d[j].v)]

\* one iteration of the first loop: duplicates, then self reference
Phase1Body(c, r, station, dests, fix) ==
    LET new_dests == Dedup(dests)
        dup == Len(new_dests) # Len(dests)
        c1 == IF dup /\ fix THEN Put(c, station, new_dests) ELSE c
        r1 == r \o (IF dup THEN <<Line("dup", station, 0, dests, "")>> ELSE <<>>)
                \o (IF dup /\ fix THEN <<Line("dup_fixed", station, 0, new_dests, "")>> ELSE <<>>)
        self == In(station, Get(c1, station))
        c2 == IF self /\ fix THEN Put(c1, station, RemoveSelf(Get(c1, station), station)) ELSE c1
        r2 == r1 \o (IF self THEN <<Line("self", station, 0, <<>>, "")>> ELSE <<>>)
                 \o (IF self /\ fix THEN <<Line("self_fixed", station, 0, Get(c2, station), "")>> ELSE <<>>)
    IN [c |-> c2, r |-> r2]

\* mutant: the new key lists itself instead of the referrer
CreateNodeSelf(c, start, end) == Put(c, end, <<end>>)

\* mutant: the new key is created with an empty list
CreateNodeEmpty(c, start, end) == Put(c, end, <<>>)

\* conn[end] = [start]
CreateNode(c, start, end) == Put(c, end, <<start>>)

\* mutant: the missing link is reported but never added
LinkBackSkip(c, start, end) == c

\* mutant: the wrong variable is appended
LinkBackWrong(c, start, end) == Put(c, end, Append(Get(c, end), end))

\* conn[end].append(start)
LinkBack(c, start, end) == Put(c, end, Append(Get(c, end), start))

\* the body of the inner loop of the second phase for one (start, end)
Phase2Pair(c, r, start, end, fix) ==
    IF end = start THEN [c |-> c, r |-> r]
    ELSE IF ~Has(c, end)
    THEN [c |-> IF fix THEN CreateNode(c, start, end) ELSE c,
          r |-> r \o <<Line("undefined", start, end, <<>>, "")>>
                  \o (IF fix THEN <<Line("created", start, end, <<>>, "")>> ELSE <<>>)]
    ELSE IF ~In(start, Get(c, end))
    THEN [c |-> IF fix THEN LinkBack(c, start, end) ELSE c,
          r |-> r \o <<Line("missing", start, end, <<>>, "")>>
                  \o (IF fix THEN <<Line("added", start, end, <<>>, "")>> ELSE <<>>)]
    ELSE [c |-> c, r |-> r]

\* for end in list(dests): ends is the copy taken when the inner loop starts
RECURSIVE Phase2Inner(_, _, _, _, _, _)
Phase2Inner(c, r, start, ends, j, fix) ==
    IF j > Len(ends) THEN [c |-> c, r |-> r]
    ELSE LET s == Phase2Pair(c, r, start, ends[j], fix)
         IN Phase2Inner(s.c, s.r, start, ends, j + 1, fix)

\* mutant: the final pass is left out
NormaliseNone(c) == c

\* the third loop: every list of the map loses its repeated entries
Normalise(c) == [j \in 1..Len(c) |-> Entry(c[j].k, Dedup(c[j].v))]

\* mutant: the count line is put in front even of an empty report
SummariseAlways(r) == <<Line("summary", Len(r), 0, <<>>, "")>> \o r

\* the summary: the only line, or a count line put in front
Summarise(r) ==
    IF r = <<>> THEN <<Line("no_issues", 0, 0, <<>>, "")>>
    ELSE <<Line("summary", Len(r), 0, <<>>, "")>> \o r

\* if auto_fix and save_to: both must be truthy
SaveRequested(fix, path) == fix /\ path # None /\ path # ""

Init ==
    /\ connections \in Dicts
    /\ auto_fix \in BOOLEAN
    /\ save_to \in SavePaths
    /\ verbose \in BOOLEAN
    /\ conn = CopyOf(connections)
    /\ report = <<>>
    /\ items = conn
    /\ idx = 1
    /\ pc = "phase1"
    /\ wrote = "none"
    /\ stdout = <<>>
    /\ run = 1
    /\ prev_defects = FALSE
    /\ sections_arg = <<>>

\* for station, dests in list(conn.items()): one station
Phase1Step ==
    /\ pc = "phase1"
    /\ idx <= Len(items)
    /\ LET s == Phase1Body(conn, report, items[idx].k, items[idx].v, auto_fix)
       IN /\ conn' = s.c
          /\ report' = s.r
    /\ idx' = idx + 1
    /\ UNCHANGED <<connections, auto_fix, save_to, verbose, items, pc, wrote, stdout,
                   run, prev_defects, sections_arg>>

\* the first loop is over; list(conn.items()) is taken for the second
Phase1Done ==
    /\ pc = "phase1"
    /\ idx > Len(items)
    /\ items' = conn
    /\ idx' = 1
    /\ pc' = "phase2"
    /\ UNCHANGED <<connections, auto_fix, save_to, verbose, conn, report, wrote, stdout,
                   run, prev_defects, sections_arg>>

\* for start, dests in list(conn.items()): one start.  dests is the list
\* object conn[start] itself (the snapshot holds references and a key that
\* exists is only ever appended to), so its content is read when the outer
\* loop reaches start.
Phase2Step ==
    /\ pc = "phase2"
    /\ idx <= Len(items)
    /\ LET start == items[idx].k
           s == Phase2Inner(conn, report, start, Get(conn, start), 1, auto_fix)
       IN /\ conn' = s.c
          /\ report' = s.r
    /\ idx' = idx + 1
    /\ UNCHANGED <<connections, auto_fix, save_to, verbose, items, pc, wrote, stdout,
                   run, prev_defects, sections_arg>>

Phase2Done ==
    /\ pc = "phase2"
    /\ idx > Len(items)
    /\ pc' = "phase3"
    /\ UNCHANGED <<connections, auto_fix, save_to, verbose, conn, report, items, idx,
                   wrote, stdout, run, prev_defects, sections_arg>>

Phase3 ==
    /\ pc = "phase3"
    /\ conn' = Normalise(conn)
    /\ pc' = "summary"
    /\ UNCHANGED <<connections, auto_fix, save_to, verbose, report, items, idx,
                   wrote, stdout, run, prev_defects, sections_arg>>

Summary ==
    /\ pc = "summary"
    /\ report' = Summarise(report)
    /\ pc' = "save"
    /\ UNCHANGED <<connections, auto_fix, save_to, verbose, conn, items, idx,
                   wrote, stdout, run, prev_defects, sections_arg>>

\* open() and json.dump() succeed
SaveOk ==
    /\ pc = "save"
    /\ SaveRequested(auto_fix, save_to)
    /\ wrote' = "ok"
    /\ report' = Append(report, Line("saved", 0, 0, <<>>, save_to))
    /\ pc' = "print"
    /\ UNCHANGED <<connections, auto_fix, save_to, verbose, conn, items, idx,
                   stdout, run, prev_defects, sections_arg>>

\* mutant: the exception is not caught and the call ends without a result
SaveFailRaises ==
    /\ pc = "save"
    /\ SaveRequested(auto_fix, save_to)
    /\ wrote' = "failed"
    /\ pc' = "raised"
    /\ UNCHANGED <<connections, auto_fix, save_to, verbose, conn, report, items, idx,
                   stdout, run, prev_defects, sections_arg>>

\* open() or json.dump() raises; except Exception as e
SaveFail ==
    /\ pc = "save"
    /\ SaveRequested(auto_fix, save_to)
    /\ wrote' = "failed"
    /\ report' = Append(report, Line("save_error", 0, 0, <<>>, save_to))
    /\ pc' = "print"
    /\ UNCHANGED <<connections, auto_fix, save_to, verbose, conn, items, idx,
                   stdout, run, prev_defects, sections_arg>>

SaveSkip ==
    /\ pc = "save"
    /\ ~SaveRequested(auto_fix, save_to)
    /\ pc' = "print"
    /\ UNCHANGED <<connections, auto_fix, save_to, verbose, conn, report, items, idx,
                   wrote, stdout, run, prev_defects, sections_arg>>

\* if verbose: print every line; return conn, report
Return ==
    /\ pc = "print"
    /\ stdout' = IF verbose THEN report ELSE <<>>
    /\ pc' = "done"
    /\ UNCHANGED <<connections, auto_fix, save_to, verbose, conn, report, items, idx,
                   wrote, run, prev_defects, sections_arg>>

\* ---- print_all_sections ----

\* mutant: the pair is kept in the order it was met
SortedPairAsGiven(a, b) == <<a, b>>

\* tuple(sorted((a, b)))
SortedPair(a, b) == IF a <= b THEN <<a, b>> ELSE <<b, a>>

\* the lines print_all_sections writes for the entries from (j, n) on
RECURSIVE Sections(_, _, _, _)
Sections(d, j, n, printed_pairs) ==
    IF j > Len(d) THEN <<>>
    ELSE IF n > Len(d[j].v) THEN Sections(d, j + 1, 1, printed_pairs)
    ELSE LET a == d[j].k
             b == d[j].v[n]
             pair == SortedPair(a, b)
         IN IF a = b THEN Sections(d, j, n + 1, printed_pairs)
            ELSE IF pair \notin printed_pairs
            THEN <<Line("option", pair[1], pair[2], <<>>, "")>>
                    \o Sections(d, j, n + 1, printed_pairs \cup {pair})
            ELSE Sections(d, j, n + 1, printed_pairs)

print_all_sections(d) == <<Line("header", 0, 0, <<>>, "")>> \o Sections(d, 1, 1, {})

\* the caller prints the sections of the map it passed or of the map it got back
PrintSections ==
    /\ pc = "done"
    /\ \E d \in {connections, conn} :
          /\ sections_arg' = d
          /\ stdout' = print_all_sections(d)
    /\ pc' = "printed"
    /\ UNCHANGED <<connections, auto_fix, save_to, verbose, conn, report, items, idx,
                   wrote, run, prev_defects>>

\* the caller feeds the map a repairing call returned back into
\* validate_connections
Revalidate ==
    /\ pc = "done"
    /\ auto_fix
    /\ run < MaxRuns
    /\ connections' = conn
    /\ auto_fix' \in BOOLEAN
    /\ save_to' \in SavePaths
    /\ verbose' = verbose
    /\ conn' = CopyOf(conn)
    /\ report' = <<>>
    /\ items' = conn
    /\ idx' = 1
    /\ pc' = "phase1"
    /\ wrote' = "none"
    /\ stdout' = <<>>
    /\ run' = run + 1
    /\ prev_defects' = (\E j \in 1..Len(report) : report[j].kind \in DefectKinds)
    /\ sections_arg' = <<>>

Next ==
    \/ Phase1Step
    \/ Phase1Done
    \/ Phase2Step
    \/ Phase2Done
    \/ Phase3
    \/ Summary
    \/ SaveOk
    \/ SaveFail
    \/ SaveSkip
    \/ Return
    \/ PrintSections
    \/ Revalidate

Spec == Init /\ [][Next]_vars

\* ---- properties ----

\* validate_connections has returned (conn, report)
Returned == pc \in {"done", "printed"}

NoRepeat(l) == \A a, b \in 1..Len(l) : l[a] = l[b] => a = b

\* B is in the list the map d keeps for A
Lists(d, A, B) == Has(d, A) /\ In(B, Get(d, A))

\* every node named in some list of d
Named(d) == UNION {Range(d[j].v) : j \in 1..Len(d)}

ReportHas(kind) == \E j \in 1..Len(report) : report[j].kind = kind

DefectLines == {j \in 1..Len(report) : report[j].kind \in DefectKinds}

\* the map has a duplicate, a self-loop, a dangling reference or a one-way link
HasDefect(d) ==
    \/ \E j \in 1..Len(d) : ~NoRepeat(d[j].v)
    \/ \E j \in 1..Len(d) : In(d[j].k, d[j].v)
    \/ \E j \in 1..Len(d) : \E B \in Range(d[j].v) : ~Lists(d, B, d[j].k)

\* C1: with auto_fix the returned map is reciprocal and has no dangling
\* reference: every B in the list of a key A is a key and lists A.
C1_Reciprocal ==
    (Returned /\ auto_fix) =>
        \A j \in 1..Len(conn) : \A B \in Range(conn[j].v) :
            Has(conn, B) /\ In(conn[j].k, Get(conn, B))

C1_Witness ==
    Returned /\ auto_fix /\ ReportHas("undefined") /\ ReportHas("missing")

\* C2: validating with auto_fix the map a call with auto_fix returned, with
\* no save path, reports the single no-issues line and returns an equal map.
C2_Idempotent ==
    (Returned /\ run > 1 /\ auto_fix /\ ~SaveRequested(auto_fix, save_to)) =>
        /\ report = <<Line("no_issues", 0, 0, <<>>, "")>>
        /\ conn = connections

C2_Witness ==
    Returned /\ run > 1 /\ prev_defects /\ auto_fix /\ save_to = None
        /\ Keys(conn) = Nodes

\* C3: with or without auto_fix, no list of the returned map repeats an entry.
C3_NoDuplicates ==
    Returned => \A j \in 1..Len(conn) : NoRepeat(conn[j].v)

C3_Witness ==
    Returned /\ ~auto_fix /\ ReportHas("dup") /\ run = 1

\* C4: with auto_fix no key of the returned map is in its own list, also
\* after the second phase has added the missing links.
C4_NoSelfLoop ==
    (Returned /\ auto_fix) => \A j \in 1..Len(conn) : ~In(conn[j].k, conn[j].v)

C4_Witness ==
    Returned /\ auto_fix /\ ReportHas("self") /\ ReportHas("added")

\* the (node, neighbor) pairs of d in map-then-list iteration order
RECURSIVE Flat(_)
Flat(d) ==
    IF d = <<>> THEN <<>>
    ELSE LET e == d[Len(d)]
         IN Flat(SubSeq(d, 1, Len(d) - 1)) \o [n \in 1..Len(e.v) |-> <<e.k, e.v[n]>>]

\* the unordered pair of a (node, neighbor) pair
Edge(p) == {p[1], p[2]}

\* the position at which the unordered pair met at position q is first met
FirstMet(P, q) == CHOOSE f \in 1..q :
    /\ Edge(P[f]) = Edge(P[q])
    /\ \A g \in 1..(f - 1) : Edge(P[g]) # Edge(P[q])

\* C5: print_all_sections writes, after its header, exactly one option line
\* for each unordered pair of distinct nodes that occurs in the map in either
\* direction, none for a self pair, in the order of the pairs' first
\* occurrences, each naming its two nodes in sorted order.
C5_Sections ==
    (pc = "printed") =>
        LET P == Flat(sections_arg)
            met == {q \in 1..Len(P) : P[q][1] # P[q][2] /\ FirstMet(P, q) = q}
            out == Tail(stdout)
        IN /\ stdout # <<>> /\ stdout[1].kind = "header"
           /\ Len(out) = Cardinality(met)
           /\ \A n \in 1..Len(out) :
                 LET q == CHOOSE q \in met : Cardinality({g \in met : g < q}) = n - 1
                 IN /\ out[n].kind = "option"
                    /\ out[n].a < out[n].b
                    /\ {out[n].a, out[n].b} = Edge(P[q])

C5_Witness ==
    /\ pc = "printed"
    /\ \E A, B \in Nodes : A > B /\ Lists(sections_arg, A, B) /\ Lists(sections_arg, B, A)
                              /\ sections_arg[1].k = A
    /\ Len(stdout) = 2

\* C6: a failing write never ends the call: from the save step the call goes
\* on to return the same map whether the write succeeded, failed or was not
\* attempted; when auto_fix and a save path are given the last report line is
\* the save confirmation or the save error, and otherwise nothing is written
\* and the report has no save line.
C6_SaveNeverFatal ==
    [][/\ (pc = "save") =>
            /\ pc' = "print"
            /\ conn' = conn
            /\ IF SaveRequested(auto_fix, save_to)
               THEN /\ wrote' \in {"ok", "failed"}
                    /\ Len(report') = Len(report) + 1
                    /\ SubSeq(report', 1, Len(report)) = report
                    /\ report'[Len(report')].kind =
                          (IF wrote' = "ok" THEN "saved" ELSE "save_error")
               ELSE /\ wrote' = "none"
                    /\ report' = report
                    /\ ~\E j \in 1..Len(report) : report[j].kind \in {"saved", "save_error"}
       /\ (pc = "print") => (pc' = "done" /\ conn' = conn /\ report' = report)
      ]_vars

C6_Witness ==
    Returned /\ wrote = "failed" /\ ReportHas("save_error") /\ ReportHas("created")

\* C7 as stated: when no defect is detected the report is the single
\* no-issues line, whatever auto_fix, save_to and verbose are.
C7_Original ==
    (Returned /\ ~HasDefect(connections)) =>
        report = <<Line("no_issues", 0, 0, <<>>, "")>>

\* C7 amended: when no defect is detected the report is the no-issues line,
\* followed by the save line when auto_fix and a save path are given and by
\* nothing otherwise.
C7_NoIssues ==
    (Returned /\ ~HasDefect(connections)) =>
        /\ report[1] = Line("no_issues", 0, 0, <<>>, "")
        /\ IF SaveRequested(auto_fix, save_to)
           THEN Len(report) = 2 /\ report[2].kind \in {"saved", "save_error"}
           ELSE Len(report) = 1

C7_Witness ==
    /\ Returned /\ ~HasDefect(connections) /\ Named(connections) # {}
    /\ SaveRequested(auto_fix, save_to) /\ verbose /\ run = 1

\* C8: when a defect is detected the first report line is the summary and
\* its count is the number of defect lines (one per duplicate, self-loop,
\* undefined-station or missing-link defect), with and without auto_fix.
C8_SummaryCount ==
    (Returned /\ DefectLines # {}) =>
        /\ report[1].kind = "summary"
        /\ report[1].a = Cardinality(DefectLines)

\* the keys of the map (in order) whose input list names k
RECURSIVE Referrers(_, _)
Referrers(d, k) ==
    IF d = <<>> THEN <<>>
    ELSE LET e == d[Len(d)]
             front == Referrers(SubSeq(d, 1, Len(d) - 1), k)
         IN IF In(k, e.v) THEN Append(front, e.k) ELSE front

\* the keys the first and the second loop iterate
Iterated == Keys(items)

\* C9 as stated: a node created from a dangling reference has exactly one
\* neighbor, its first referrer, and is never a start node of phase 2.
C9_Original ==
    (Returned /\ auto_fix) =>
        \A k \in Keys(conn) \ Keys(connections) :
            /\ Get(conn, k) = <<Referrers(connections, k)[1]>>
            /\ k \notin Iterated

\* C9 amended: a node created from a dangling reference lists exactly the
\* input keys that name it, in key order and so its first referrer first (one
\* neighbor only when a single key names it), and is never a start node of
\* phase 2.
C9_CreatedNode ==
    (Returned /\ auto_fix) =>
        \A k \in Keys(conn) \ Keys(connections) :
            /\ Get(conn, k) = Referrers(connections, k)
            /\ Get(conn, k) # <<>>
            /\ k \notin Iterated

C9_Witness ==
    Returned /\ auto_fix /\ \E k \in Keys(conn) \ Keys(connections) : Len(Get(conn, k)) > 1

\* C10: with auto_fix the returned keys are the input keys and every node
\* named in an input list, and B is in the returned list of A exactly when
\* A # B and the input lists B for A or A for B.
C10_SymmetricClosure ==
    (Returned /\ auto_fix) =>
        /\ Keys(conn) = Keys(connections) \cup Named(connections)
        /\ \A A, B \in Nodes :
              Lists(conn, A, B) <=>
                 (A # B /\ (Lists(connections, A, B) \/ Lists(connections, B, A)))

C10_Witness ==
    /\ Returned /\ auto_fix /\ run = 1
    /\ ReportHas("self") /\ ReportHas("created")

====
